---------------------------- MODULE Spec2Model ----------------------------
(***************************************************************************)
(* The floating-point idiom lint of clippy_lints                           *)
(* (src/clippy_lints/src/floating_point_arithmetic.rs) as a state machine. *)
(*                                                                         *)
(* The lint pass is stateless: the driver calls check_expr once for every  *)
(* expression node of a typed tree, in an order the pass does not control, *)
(* and every call hands zero or more suggestions to the diagnostics sink.  *)
(* The state of the model is the tree under analysis, the nodes the driver *)
(* has not visited yet, the sink, the record of the latest check_expr call *)
(* and the suggestion the fixer applied last, with the expression it was   *)
(* made for.                                                               *)
(*                                                                         *)
(* Indices: HirVec positions are 0-based here as in the source, so args[0] *)
(* is the receiver of a method call and args[1] its first argument; the    *)
(* operands of a binary node are args[0] (lhs) and args[1] (rhs).          *)
(***************************************************************************)
EXTENDS Integers, Sequences, FiniteSets, TLC

VARIABLES
    tree,       \* the expression under analysis
    pending,    \* the positions the driver has not visited yet in this pass
    sink,       \* the diagnostics emitted in this pass
    last,       \* the latest check_expr call: its node and what it did
    applied,    \* the suggestion the fixer applied last
    origin,     \* the expression that suggestion was made for
    pass        \* the number of suggestions applied so far

vars == <<tree, pending, sink, last, applied, origin, pass>>

-----------------------------------------------------------------------------
(* Bounds of the model.                                                    *)

\* How many suggestions the fixer applies, one after the other, to one tree.
MaxRewrites == 2

-----------------------------------------------------------------------------
(* Constant values: crate::consts::Constant::{F32, F64}.                   *)
(* A value is its width tag and the bits of the value widened to f64, as   *)
(* four 16-bit words, most significant first (Constant's PartialEq         *)
(* compares f64::from(l).to_bits() for F32 and l.to_bits() for F64).       *)

F32(b) == [tag |-> "F32", bits |-> b]
F64(b) == [tag |-> "F64", bits |-> b]

\* Option<Constant>: None is the empty sequence, Some(c) is <<c>>.
None == <<>>
Some(c) == <<c>>

\* Constant == Constant: equal only within one width tag, and then bit for bit.
ConstEq(l, r) == l.tag = r.tag /\ l.bits = r.bits

\* IEEE-754 bit patterns of the literals of the source and of the inputs.
lit_1_0 == <<16368, 0, 0, 0>>
lit_2_0 == <<16384, 0, 0, 0>>
lit_3_0 == <<16392, 0, 0, 0>>
lit_10_0 == <<16420, 0, 0, 0>>
lit_0_5 == <<16352, 0, 0, 0>>
lit_0_25 == <<16336, 0, 0, 0>>
\* std::f32::consts::E (2.7182817) and std::f64::consts::E (2.718281828459045)
f32_consts_E == <<16389, 48906, 32768, 0>>
f64_consts_E == <<16389, 48906, 35604, 22377>>

\* Correctly rounded +, -, *, / of the literals 1.0, 2.0, 3.0 in each width:
\* <<operator, width, lhs bits, rhs bits>> :> result bits.
FoldTable ==
       (<<"Add", "F32", <<16368, 0, 0, 0>>, <<16368, 0, 0, 0>>>> :> <<16384, 0, 0, 0>>)
    @@ (<<"Add", "F32", <<16368, 0, 0, 0>>, <<16384, 0, 0, 0>>>> :> <<16392, 0, 0, 0>>)
    @@ (<<"Add", "F32", <<16368, 0, 0, 0>>, <<16392, 0, 0, 0>>>> :> <<16400, 0, 0, 0>>)
    @@ (<<"Add", "F32", <<16384, 0, 0, 0>>, <<16368, 0, 0, 0>>>> :> <<16392, 0, 0, 0>>)
    @@ (<<"Add", "F32", <<16384, 0, 0, 0>>, <<16384, 0, 0, 0>>>> :> <<16400, 0, 0, 0>>)
    @@ (<<"Add", "F32", <<16384, 0, 0, 0>>, <<16392, 0, 0, 0>>>> :> <<16404, 0, 0, 0>>)
    @@ (<<"Add", "F32", <<16392, 0, 0, 0>>, <<16368, 0, 0, 0>>>> :> <<16400, 0, 0, 0>>)
    @@ (<<"Add", "F32", <<16392, 0, 0, 0>>, <<16384, 0, 0, 0>>>> :> <<16404, 0, 0, 0>>)
    @@ (<<"Add", "F32", <<16392, 0, 0, 0>>, <<16392, 0, 0, 0>>>> :> <<16408, 0, 0, 0>>)
    @@ (<<"Sub", "F32", <<16368, 0, 0, 0>>, <<16368, 0, 0, 0>>>> :> <<0, 0, 0, 0>>)
    @@ (<<"Sub", "F32", <<16368, 0, 0, 0>>, <<16384, 0, 0, 0>>>> :> <<49136, 0, 0, 0>>)
    @@ (<<"Sub", "F32", <<16368, 0, 0, 0>>, <<16392, 0, 0, 0>>>> :> <<49152, 0, 0, 0>>)
    @@ (<<"Sub", "F32", <<16384, 0, 0, 0>>, <<16368, 0, 0, 0>>>> :> <<16368, 0, 0, 0>>)
    @@ (<<"Sub", "F32", <<16384, 0, 0, 0>>, <<16384, 0, 0, 0>>>> :> <<0, 0, 0, 0>>)
    @@ (<<"Sub", "F32", <<16384, 0, 0, 0>>, <<16392, 0, 0, 0>>>> :> <<49136, 0, 0, 0>>)
    @@ (<<"Sub", "F32", <<16392, 0, 0, 0>>, <<16368, 0, 0, 0>>>> :> <<16384, 0, 0, 0>>)
    @@ (<<"Sub", "F32", <<16392, 0, 0, 0>>, <<16384, 0, 0, 0>>>> :> <<16368, 0, 0, 0>>)
    @@ (<<"Sub", "F32", <<16392, 0, 0, 0>>, <<16392, 0, 0, 0>>>> :> <<0, 0, 0, 0>>)
    @@ (<<"Mul", "F32", <<16368, 0, 0, 0>>, <<16368, 0, 0, 0>>>> :> <<16368, 0, 0, 0>>)
    @@ (<<"Mul", "F32", <<16368, 0, 0, 0>>, <<16384, 0, 0, 0>>>> :> <<16384, 0, 0, 0>>)
    @@ (<<"Mul", "F32", <<16368, 0, 0, 0>>, <<16392, 0, 0, 0>>>> :> <<16392, 0, 0, 0>>)
    @@ (<<"Mul", "F32", <<16384, 0, 0, 0>>, <<16368, 0, 0, 0>>>> :> <<16384, 0, 0, 0>>)
    @@ (<<"Mul", "F32", <<16384, 0, 0, 0>>, <<16384, 0, 0, 0>>>> :> <<16400, 0, 0, 0>>)
    @@ (<<"Mul", "F32", <<16384, 0, 0, 0>>, <<16392, 0, 0, 0>>>> :> <<16408, 0, 0, 0>>)
    @@ (<<"Mul", "F32", <<16392, 0, 0, 0>>, <<16368, 0, 0, 0>>>> :> <<16392, 0, 0, 0>>)
    @@ (<<"Mul", "F32", <<16392, 0, 0, 0>>, <<16384, 0, 0, 0>>>> :> <<16408, 0, 0, 0>>)
    @@ (<<"Mul", "F32", <<16392, 0, 0, 0>>, <<16392, 0, 0, 0>>>> :> <<16418, 0, 0, 0>>)
    @@ (<<"Div", "F32", <<16368, 0, 0, 0>>, <<16368, 0, 0, 0>>>> :> <<16368, 0, 0, 0>>)
    @@ (<<"Div", "F32", <<16368, 0, 0, 0>>, <<16384, 0, 0, 0>>>> :> <<16352, 0, 0, 0>>)
    @@ (<<"Div", "F32", <<16368, 0, 0, 0>>, <<16392, 0, 0, 0>>>> :> <<16341, 21845, 24576, 0>>)
    @@ (<<"Div", "F32", <<16384, 0, 0, 0>>, <<16368, 0, 0, 0>>>> :> <<16384, 0, 0, 0>>)
    @@ (<<"Div", "F32", <<16384, 0, 0, 0>>, <<16384, 0, 0, 0>>>> :> <<16368, 0, 0, 0>>)
    @@ (<<"Div", "F32", <<16384, 0, 0, 0>>, <<16392, 0, 0, 0>>>> :> <<16357, 21845, 24576, 0>>)
    @@ (<<"Div", "F32", <<16392, 0, 0, 0>>, <<16368, 0, 0, 0>>>> :> <<16392, 0, 0, 0>>)
    @@ (<<"Div", "F32", <<16392, 0, 0, 0>>, <<16384, 0, 0, 0>>>> :> <<16376, 0, 0, 0>>)
    @@ (<<"Div", "F32", <<16392, 0, 0, 0>>, <<16392, 0, 0, 0>>>> :> <<16368, 0, 0, 0>>)
    @@ (<<"Add", "F64", <<16368, 0, 0, 0>>, <<16368, 0, 0, 0>>>> :> <<16384, 0, 0, 0>>)
    @@ (<<"Add", "F64", <<16368, 0, 0, 0>>, <<16384, 0, 0, 0>>>> :> <<16392, 0, 0, 0>>)
    @@ (<<"Add", "F64", <<16368, 0, 0, 0>>, <<16392, 0, 0, 0>>>> :> <<16400, 0, 0, 0>>)
    @@ (<<"Add", "F64", <<16384, 0, 0, 0>>, <<16368, 0, 0, 0>>>> :> <<16392, 0, 0, 0>>)
    @@ (<<"Add", "F64", <<16384, 0, 0, 0>>, <<16384, 0, 0, 0>>>> :> <<16400, 0, 0, 0>>)
    @@ (<<"Add", "F64", <<16384, 0, 0, 0>>, <<16392, 0, 0, 0>>>> :> <<16404, 0, 0, 0>>)
    @@ (<<"Add", "F64", <<16392, 0, 0, 0>>, <<16368, 0, 0, 0>>>> :> <<16400, 0, 0, 0>>)
    @@ (<<"Add", "F64", <<16392, 0, 0, 0>>, <<16384, 0, 0, 0>>>> :> <<16404, 0, 0, 0>>)
    @@ (<<"Add", "F64", <<16392, 0, 0, 0>>, <<16392, 0, 0, 0>>>> :> <<16408, 0, 0, 0>>)
    @@ (<<"Sub", "F64", <<16368, 0, 0, 0>>, <<16368, 0, 0, 0>>>> :> <<0, 0, 0, 0>>)
    @@ (<<"Sub", "F64", <<16368, 0, 0, 0>>, <<16384, 0, 0, 0>>>> :> <<49136, 0, 0, 0>>)
    @@ (<<"Sub", "F64", <<16368, 0, 0, 0>>, <<16392, 0, 0, 0>>>> :> <<49152, 0, 0, 0>>)
    @@ (<<"Sub", "F64", <<16384, 0, 0, 0>>, <<16368, 0, 0, 0>>>> :> <<16368, 0, 0, 0>>)
    @@ (<<"Sub", "F64", <<16384, 0, 0, 0>>, <<16384, 0, 0, 0>>>> :> <<0, 0, 0, 0>>)
    @@ (<<"Sub", "F64", <<16384, 0, 0, 0>>, <<16392, 0, 0, 0>>>> :> <<49136, 0, 0, 0>>)
    @@ (<<"Sub", "F64", <<16392, 0, 0, 0>>, <<16368, 0, 0, 0>>>> :> <<16384, 0, 0, 0>>)
    @@ (<<"Sub", "F64", <<16392, 0, 0, 0>>, <<16384, 0, 0, 0>>>> :> <<16368, 0, 0, 0>>)
    @@ (<<"Sub", "F64", <<16392, 0, 0, 0>>, <<16392, 0, 0, 0>>>> :> <<0, 0, 0, 0>>)
    @@ (<<"Mul", "F64", <<16368, 0, 0, 0>>, <<16368, 0, 0, 0>>>> :> <<16368, 0, 0, 0>>)
    @@ (<<"Mul", "F64", <<16368, 0, 0, 0>>, <<16384, 0, 0, 0>>>> :> <<16384, 0, 0, 0>>)
    @@ (<<"Mul", "F64", <<16368, 0, 0, 0>>, <<16392, 0, 0, 0>>>> :> <<16392, 0, 0, 0>>)
    @@ (<<"Mul", "F64", <<16384, 0, 0, 0>>, <<16368, 0, 0, 0>>>> :> <<16384, 0, 0, 0>>)
    @@ (<<"Mul", "F64", <<16384, 0, 0, 0>>, <<16384, 0, 0, 0>>>> :> <<16400, 0, 0, 0>>)
    @@ (<<"Mul", "F64", <<16384, 0, 0, 0>>, <<16392, 0, 0, 0>>>> :> <<16408, 0, 0, 0>>)
    @@ (<<"Mul", "F64", <<16392, 0, 0, 0>>, <<16368, 0, 0, 0>>>> :> <<16392, 0, 0, 0>>)
    @@ (<<"Mul", "F64", <<16392, 0, 0, 0>>, <<16384, 0, 0, 0>>>> :> <<16408, 0, 0, 0>>)
    @@ (<<"Mul", "F64", <<16392, 0, 0, 0>>, <<16392, 0, 0, 0>>>> :> <<16418, 0, 0, 0>>)
    @@ (<<"Div", "F64", <<16368, 0, 0, 0>>, <<16368, 0, 0, 0>>>> :> <<16368, 0, 0, 0>>)
    @@ (<<"Div", "F64", <<16368, 0, 0, 0>>, <<16384, 0, 0, 0>>>> :> <<16352, 0, 0, 0>>)
    @@ (<<"Div", "F64", <<16368, 0, 0, 0>>, <<16392, 0, 0, 0>>>> :> <<16341, 21845, 21845, 21845>>)
    @@ (<<"Div", "F64", <<16384, 0, 0, 0>>, <<16368, 0, 0, 0>>>> :> <<16384, 0, 0, 0>>)
    @@ (<<"Div", "F64", <<16384, 0, 0, 0>>, <<16384, 0, 0, 0>>>> :> <<16368, 0, 0, 0>>)
    @@ (<<"Div", "F64", <<16384, 0, 0, 0>>, <<16392, 0, 0, 0>>>> :> <<16357, 21845, 21845, 21845>>)
    @@ (<<"Div", "F64", <<16392, 0, 0, 0>>, <<16368, 0, 0, 0>>>> :> <<16392, 0, 0, 0>>)
    @@ (<<"Div", "F64", <<16392, 0, 0, 0>>, <<16384, 0, 0, 0>>>> :> <<16376, 0, 0, 0>>)
    @@ (<<"Div", "F64", <<16392, 0, 0, 0>>, <<16392, 0, 0, 0>>>> :> <<16368, 0, 0, 0>>)

\* A width's arithmetic on two constants of that width.
Fold(op, l, r) == [tag |-> l.tag, bits |-> FoldTable[<<op, l.tag, l.bits, r.bits>>]]

-----------------------------------------------------------------------------
(* Expression nodes (rustc::hir::Expr): kind, a name (the identifier of a  *)
(* path, the token of a literal, the BinOpKind of a binary node, the       *)
(* method name of a method call) and the operand nodes.                    *)

NoArgs == <<>>
Args1(r) == 0 :> r
Args2(r, a) == (0 :> r) @@ (1 :> a)

Path(n) == [kind |-> "Path", name |-> n, args |-> NoArgs]
Lit(n) == [kind |-> "Lit", name |-> n, args |-> NoArgs]
Binary(op, l, r) == [kind |-> "Binary", name |-> op, args |-> Args2(l, r)]
MethodCall(m, as) == [kind |-> "MethodCall", name |-> m, args |-> as]

NumArgs(e) == Cardinality(DOMAIN e.args)

\* The literals of the inputs and the constants they denote.
LitTable ==
       ("1.0_f64" :> F64(lit_1_0)) @@ ("1.0_f32" :> F32(lit_1_0))
    @@ ("2.0_f64" :> F64(lit_2_0)) @@ ("2.0_f32" :> F32(lit_2_0))
    @@ ("3.0_f64" :> F64(lit_3_0)) @@ ("3.0_f32" :> F32(lit_3_0))
    @@ ("10.0_f64" :> F64(lit_10_0)) @@ ("10.0_f32" :> F32(lit_10_0))
    @@ ("0.5_f64" :> F64(lit_0_5)) @@ ("0.5_f32" :> F32(lit_0_5))
    @@ ("0.25_f64" :> F64(lit_0_25)) @@ ("0.25_f32" :> F32(lit_0_25))
    \* double-width literals that spell the single-width values of 1/3 and e
    @@ ("0.3333333432674408_f64" :> F64(FoldTable[<<"Div", "F32", lit_1_0, lit_3_0>>]))
    @@ ("2.7182817459106445_f64" :> F64(f32_consts_E))

\* Paths that name constants, and the constants they resolve to.
ConstPaths ==
       ("f32_consts::E" :> F32(f32_consts_E))
    @@ ("f64_consts::E" :> F64(f64_consts_E))

\* The local variables in scope and their static types.
VarTy ==
       ("x" :> "f64") @@ ("y" :> "f64")
    @@ ("a" :> "f32") @@ ("b" :> "f32")
    @@ ("n" :> "i32") @@ ("u" :> "Custom")

is_floating_point(ty) == ty \in {"f32", "f64"}

\* The static type of a method call: the floating-point methods return the
\* receiver's type; the type Custom declares exp with a double-width result
\* and its other methods with result Custom; the methods an extension trait
\* adds to i32 return i32.
MethodTy(recv_ty, m) ==
    IF recv_ty = "Custom" /\ m = "exp" THEN "f64" ELSE recv_ty

\* The static type of a binary node: the operands' type, or Custom when
\* one operand is of the type Custom (which implements the operators with
\* floating-point operands on either side).
BinaryTy(lt, rt) == IF lt = "Custom" \/ rt = "Custom" THEN "Custom" ELSE lt

RECURSIVE expr_ty(_)
expr_ty(e) ==
    CASE e.kind = "Lit" -> (IF LitTable[e.name].tag = "F32" THEN "f32" ELSE "f64")
      [] e.kind = "Path" ->
            (IF e.name \in DOMAIN ConstPaths
             THEN (IF ConstPaths[e.name].tag = "F32" THEN "f32" ELSE "f64")
             ELSE VarTy[e.name])
      [] e.kind = "Binary" -> BinaryTy(expr_ty(e.args[0]), expr_ty(e.args[1]))
      [] e.kind = "MethodCall" -> MethodTy(expr_ty(e.args[0]), e.name)

\* crate::consts::constant: the folded value of a compile-time constant
\* expression (a literal, a named constant, arithmetic on constants), None
\* for anything else; a method call is never folded.
RECURSIVE constant(_)
constant(e) ==
    CASE e.kind = "Lit" -> Some(LitTable[e.name])
      [] e.kind = "Path" ->
            (IF e.name \in DOMAIN ConstPaths THEN Some(ConstPaths[e.name]) ELSE None)
      [] e.kind = "Binary" ->
            LET l == constant(e.args[0])
                r == constant(e.args[1])
            IN  IF l = None \/ r = None THEN None
                ELSE IF l[1].tag # r[1].tag THEN None
                ELSE Some(Fold(e.name, l[1], r[1]))
      [] e.kind = "MethodCall" -> None

-----------------------------------------------------------------------------
(* Source text, as a sequence of tokens.                                   *)

OpToken(op) ==
    CASE op = "Add" -> "+" [] op = "Sub" -> "-" [] op = "Mul" -> "*" [] op = "Div" -> "/"

TokenOp(t) ==
    CASE t = "+" -> "Add" [] t = "-" -> "Sub" [] t = "*" -> "Mul" [] t = "/" -> "Div"

\* Binding strength: additive < multiplicative < postfix and primary.
Prec(e) ==
    IF e.kind = "Binary"
    THEN (IF e.name \in {"Add", "Sub"} THEN 1 ELSE 2)
    ELSE 3

\* snippet(cx, e.span, ..): the source text of a node's span.  The span of a
\* node holds the parentheses of its operands, never parentheses around the
\* node itself.
RECURSIVE snippet(_)
Operand(e, p) ==
    IF Prec(e) < p THEN <<"(">> \o snippet(e) \o <<")">> ELSE snippet(e)

RECURSIVE ArgList(_, _)
ArgList(as, i) ==
    IF i \notin DOMAIN as THEN <<>>
    ELSE (IF i > 1 THEN <<",">> ELSE <<>>) \o snippet(as[i]) \o ArgList(as, i + 1)

snippet(e) ==
    CASE e.kind \in {"Lit", "Path"} -> <<e.name>>
      [] e.kind = "Binary" ->
            Operand(e.args[0], Prec(e)) \o <<OpToken(e.name)>>
                \o Operand(e.args[1], Prec(e) + 1)
      [] e.kind = "MethodCall" ->
            Operand(e.args[0], 3) \o <<".", e.name, "(">> \o ArgList(e.args, 1) \o <<")">>

\* The host's expression grammar, read back from tokens:
\*   expr    ::= term (("+" | "-") term)*
\*   term    ::= postfix (("*" | "/") postfix)*
\*   postfix ::= primary ("." ident "(" (expr ("," expr)*)? ")")*
\*   primary ::= literal | path | "(" expr ")"
\* Each parser returns the node it read and the tokens left.
RECURSIVE ParseExpr(_), ParseExprRest(_, _), ParseTerm(_), ParseTermRest(_, _)
RECURSIVE ParsePostfix(_), ParsePostfixRest(_, _), ParseArgs(_, _)

ParsePrimary(ts) ==
    IF Head(ts) = "("
    THEN LET r == ParseExpr(Tail(ts)) IN [e |-> r.e, rest |-> Tail(r.rest)]
    ELSE [e |-> IF Head(ts) \in DOMAIN LitTable THEN Lit(Head(ts)) ELSE Path(Head(ts)),
          rest |-> Tail(ts)]

\* The arguments after "(", up to and including ")" ; as holds the receiver
\* and the arguments read so far.
ParseArgs(as, ts) ==
    IF Head(ts) = ")" THEN [as |-> as, rest |-> Tail(ts)]
    ELSE LET r == ParseExpr(IF Head(ts) = "," THEN Tail(ts) ELSE ts)
         IN  ParseArgs(as @@ (Cardinality(DOMAIN as) :> r.e), r.rest)

ParsePostfixRest(e, ts) ==
    IF ts # <<>> /\ Head(ts) = "."
    THEN LET r == ParseArgs(Args1(e), SubSeq(ts, 4, Len(ts)))
         IN  ParsePostfixRest(MethodCall(ts[2], r.as), r.rest)
    ELSE [e |-> e, rest |-> ts]

ParsePostfix(ts) ==
    LET r == ParsePrimary(ts) IN ParsePostfixRest(r.e, r.rest)

ParseTermRest(e, ts) ==
    IF ts # <<>> /\ Head(ts) \in {"*", "/"}
    THEN LET r == ParsePostfix(Tail(ts))
         IN  ParseTermRest(Binary(TokenOp(Head(ts)), e, r.e), r.rest)
    ELSE [e |-> e, rest |-> ts]

ParseTerm(ts) ==
    LET r == ParsePostfix(ts) IN ParseTermRest(r.e, r.rest)

ParseExprRest(e, ts) ==
    IF ts # <<>> /\ Head(ts) \in {"+", "-"}
    THEN LET r == ParseTerm(Tail(ts))
         IN  ParseExprRest(Binary(TokenOp(Head(ts)), e, r.e), r.rest)
    ELSE [e |-> e, rest |-> ts]

ParseExpr(ts) ==
    LET r == ParseTerm(ts) IN ParseExprRest(r.e, r.rest)

Parse(ts) == ParseExpr(ts).e

-----------------------------------------------------------------------------
(* Suggestions: crate::utils::sugg::Sugg and span_lint_and_sugg.           *)

\* Sugg::hir: the node's snippet, classed by the node's kind.  A binary
\* node gives Sugg::BinOp; literals, paths and method calls give
\* Sugg::NonParen.
Sugg_hir(e) ==
    [variant |-> IF e.kind = "Binary" THEN "BinOp" ELSE "NonParen",
     text |-> snippet(e)]

\* Sugg::maybe_par: parentheses around anything that is not Sugg::NonParen.
maybe_par(s) ==
    IF s.variant = "NonParen" THEN s
    ELSE [variant |-> "NonParen", text |-> <<"(">> \o s.text \o <<")">>]

\* format!("{}.{}()", sugg, method): Display prints the Sugg's text as it is.
format(s, method) == s.text \o <<".", method, "(", ")">>

\* span_lint_and_sugg(cx, lint, sp, msg, help, sugg, applicability): the
\* diagnostic handed to the sink.
span_lint_and_sugg(lint, sp, msg, help, sugg, applicability) ==
    [lint |-> lint, span |-> sp, msg |-> msg, help |-> help,
     sugg |-> sugg, applicability |-> applicability]

-----------------------------------------------------------------------------
(* The matchers.  Each returns the diagnostics it emits, in order; sp is   *)
(* expr.span (the position of the node in the tree).                       *)

\* check_log_base that compares with the double-width values only.
check_log_base_f64_only(sp, args) ==
    LET arg == maybe_par(Sugg_hir(args[0]))
        c == constant(args[1])
    IN  IF c = None THEN <<>>
        ELSE
            LET value == c[1]
                method ==
                    IF ConstEq(F64(lit_2_0), value) THEN "log2"
                    ELSE IF ConstEq(F64(lit_10_0), value) THEN "log10"
                    ELSE IF ConstEq(F64(f64_consts_E), value) THEN "ln"
                    ELSE "return"
            IN  IF method = "return" THEN <<>>
                ELSE << span_lint_and_sugg(
                            "FLOATING_POINT_IMPROVEMENTS", sp,
                            "logarithm for bases 2, 10 and e can be computed more accurately",
                            "consider using",
                            format(arg, method),
                            "MachineApplicable") >>

\* check_log_base without the parentheses around a compound receiver.
check_log_base_no_par(sp, args) ==
    LET arg == Sugg_hir(args[0])
        c == constant(args[1])
    IN  IF c = None THEN <<>>
        ELSE
            LET value == c[1]
                method ==
                    IF ConstEq(F32(lit_2_0), value) \/ ConstEq(F64(lit_2_0), value)
                    THEN "log2"
                    ELSE IF ConstEq(F32(lit_10_0), value) \/ ConstEq(F64(lit_10_0), value)
                    THEN "log10"
                    ELSE IF ConstEq(F32(f32_consts_E), value)
                            \/ ConstEq(F64(f64_consts_E), value)
                    THEN "ln"
                    ELSE "return"
            IN  IF method = "return" THEN <<>>
                ELSE << span_lint_and_sugg(
                            "FLOATING_POINT_IMPROVEMENTS", sp,
                            "logarithm for bases 2, 10 and e can be computed more accurately",
                            "consider using",
                            format(arg, method),
                            "MachineApplicable") >>

check_log_base(sp, args) ==
    LET arg == maybe_par(Sugg_hir(args[0]))
        c == constant(args[1])
    IN  IF c = None THEN <<>>
        ELSE
            LET value == c[1]
                method ==
                    IF ConstEq(F32(lit_2_0), value) \/ ConstEq(F64(lit_2_0), value)
                    THEN "log2"
                    ELSE IF ConstEq(F32(lit_10_0), value) \/ ConstEq(F64(lit_10_0), value)
                    THEN "log10"
                    ELSE IF ConstEq(F32(f32_consts_E), value)
                            \/ ConstEq(F64(f64_consts_E), value)
                    THEN "ln"
                    ELSE "return"
            IN  IF method = "return" THEN <<>>
                ELSE << span_lint_and_sugg(
                            "FLOATING_POINT_IMPROVEMENTS", sp,
                            "logarithm for bases 2, 10 and e can be computed more accurately",
                            "consider using",
                            format(arg, method),
                            "MachineApplicable") >>

\* check_ln1p without the test that the receiver's operator is an addition.
check_ln1p_any_operator(sp, args) ==
    IF  /\ args[0].kind = "Binary"
        /\ constant(args[0].args[0]) # None
        /\ LET value == constant(args[0].args[0])[1]
           IN  ConstEq(F32(lit_1_0), value) \/ ConstEq(F64(lit_1_0), value)
    THEN LET rhs == args[0].args[1]
             arg == maybe_par(Sugg_hir(rhs))
         IN  << span_lint_and_sugg(
                    "FLOATING_POINT_IMPROVEMENTS", sp,
                    "ln(1 + x) can be computed more accurately",
                    "consider using",
                    format(arg, "ln_1p"),
                    "MachineApplicable") >>
    ELSE <<>>

\* check_ln1p that accepts the constant 1 as either operand of the addition.
check_ln1p_either_operand(sp, args) ==
    IF  /\ args[0].kind = "Binary"
        /\ args[0].name = "Add"
        /\ \E i \in {0, 1} :
              /\ constant(args[0].args[i]) # None
              /\ LET value == constant(args[0].args[i])[1]
                 IN  ConstEq(F32(lit_1_0), value) \/ ConstEq(F64(lit_1_0), value)
    THEN LET rhs == args[0].args[1]
             arg == maybe_par(Sugg_hir(rhs))
         IN  << span_lint_and_sugg(
                    "FLOATING_POINT_IMPROVEMENTS", sp,
                    "ln(1 + x) can be computed more accurately",
                    "consider using",
                    format(arg, "ln_1p"),
                    "MachineApplicable") >>
    ELSE <<>>

check_ln1p(sp, args) ==
    IF  /\ args[0].kind = "Binary"
        /\ args[0].name = "Add"
        /\ constant(args[0].args[0]) # None
        /\ LET value == constant(args[0].args[0])[1]
           IN  ConstEq(F32(lit_1_0), value) \/ ConstEq(F64(lit_1_0), value)
    THEN LET rhs == args[0].args[1]
             arg == maybe_par(Sugg_hir(rhs))
         IN  << span_lint_and_sugg(
                    "FLOATING_POINT_IMPROVEMENTS", sp,
                    "ln(1 + x) can be computed more accurately",
                    "consider using",
                    format(arg, "ln_1p"),
                    "MachineApplicable") >>
    ELSE <<>>

\* The value 1.0 / 2.0 and 1.0 / 3.0 of each width, as the compiler folds them.
F32_half == F32(FoldTable[<<"Div", "F32", lit_1_0, lit_2_0>>])
F64_half == F64(FoldTable[<<"Div", "F64", lit_1_0, lit_2_0>>])
F32_third == F32(FoldTable[<<"Div", "F32", lit_1_0, lit_3_0>>])
F64_third == F64(FoldTable[<<"Div", "F64", lit_1_0, lit_3_0>>])

\* "Check receiver" (lines 119-139): the diagnostics, and whether the
\* function returned at line 127.
check_powf_receiver(sp, args) ==
    LET c == constant(args[0])
    IN  IF c = None THEN [returned |-> FALSE, out |-> <<>>]
        ELSE
            LET value == c[1]
                method ==
                    IF ConstEq(F32(f32_consts_E), value) \/ ConstEq(F64(f64_consts_E), value)
                    THEN "exp"
                    ELSE IF ConstEq(F32(lit_2_0), value) \/ ConstEq(F64(lit_2_0), value)
                    THEN "exp2"
                    ELSE "return"
            IN  IF method = "return" THEN [returned |-> TRUE, out |-> <<>>]
                ELSE [returned |-> FALSE,
                      out |-> << span_lint_and_sugg(
                            "FLOATING_POINT_IMPROVEMENTS", sp,
                            "exponent for bases 2 and e can be computed more accurately",
                            "consider using",
                            format(maybe_par(Sugg_hir(args[1])), method),
                            "MachineApplicable") >>]

\* The argument check with the two methods exchanged.
check_powf_argument_swapped(sp, args) ==
    LET c == constant(args[1])
    IN  IF c = None THEN <<>>
        ELSE
            LET value == c[1]
                method ==
                    IF ConstEq(F32_half, value) \/ ConstEq(F64_half, value)
                    THEN "cbrt"
                    ELSE IF ConstEq(F32_third, value) \/ ConstEq(F64_third, value)
                    THEN "sqrt"
                    ELSE "return"
                help ==
                    IF method = "sqrt"
                    THEN "square-root of a number can be computed more efficiently and accurately"
                    ELSE "cube-root of a number can be computed more accurately"
            IN  IF method = "return" THEN <<>>
                ELSE << span_lint_and_sugg(
                            "FLOATING_POINT_IMPROVEMENTS", sp,
                            help,
                            "consider using",
                            format(Sugg_hir(args[0]), method),
                            "MachineApplicable") >>

\* "Check argument" (lines 142-165).
check_powf_argument(sp, args) ==
    LET c == constant(args[1])
    IN  IF c = None THEN <<>>
        ELSE
            LET value == c[1]
                method ==
                    IF ConstEq(F32_half, value) \/ ConstEq(F64_half, value)
                    THEN "sqrt"
                    ELSE IF ConstEq(F32_third, value) \/ ConstEq(F64_third, value)
                    THEN "cbrt"
                    ELSE "return"
                help ==
                    IF method = "sqrt"
                    THEN "square-root of a number can be computed more efficiently and accurately"
                    ELSE "cube-root of a number can be computed more accurately"
            IN  IF method = "return" THEN <<>>
                ELSE << span_lint_and_sugg(
                            "FLOATING_POINT_IMPROVEMENTS", sp,
                            help,
                            "consider using",
                            format(Sugg_hir(args[0]), method),
                            "MachineApplicable") >>

check_powf(sp, args) ==
    LET receiver == check_powf_receiver(sp, args)
    IN  IF receiver.returned THEN receiver.out
        ELSE receiver.out \o check_powf_argument(sp, args)

check_expm1(sp, expr) ==
    IF  /\ expr.kind = "Binary"
        /\ expr.name = "Sub"
        /\ is_floating_point(expr_ty(expr.args[0]))
        /\ constant(expr.args[1]) # None
        /\ LET value == constant(expr.args[1])[1]
           IN  ConstEq(F32(lit_1_0), value) \/ ConstEq(F64(lit_1_0), value)
        /\ expr.args[0].kind = "MethodCall"
        /\ expr.args[0].name = "exp"
    THEN LET method_args == expr.args[0].args
         IN  << span_lint_and_sugg(
                    "FLOATING_POINT_IMPROVEMENTS", sp,
                    "(e.pow(x) - 1) can be computed more accurately",
                    "consider using",
                    format(Sugg_hir(method_args[0]), "exp_m1"),
                    "MachineApplicable") >>
    ELSE <<>>

\* check_expr that hands every node to check_expm1, method calls included.
check_expr_falls_through(sp, expr) ==
    LET first ==
            IF expr.kind = "MethodCall" /\ is_floating_point(expr_ty(expr.args[0]))
            THEN CASE expr.name = "ln" ->
                        [called |-> <<"check_ln1p">>, out |-> check_ln1p(sp, expr.args)]
                   [] expr.name = "log" ->
                        [called |-> <<"check_log_base">>,
                         out |-> check_log_base(sp, expr.args)]
                   [] expr.name = "powf" ->
                        [called |-> <<"check_powf">>, out |-> check_powf(sp, expr.args)]
                   [] OTHER -> [called |-> <<>>, out |-> <<>>]
            ELSE [called |-> <<>>, out |-> <<>>]
    IN  [called |-> first.called \o <<"check_expm1">>,
         out |-> first.out \o check_expm1(sp, expr)]

\* LateLintPass::check_expr: the matchers the node is handed to, in order,
\* and the diagnostics they emit.
check_expr(sp, expr) ==
    IF expr.kind = "MethodCall"
    THEN LET args == expr.args
             recv_ty == expr_ty(args[0])
         IN  IF is_floating_point(recv_ty)
             THEN CASE expr.name = "ln" ->
                        [called |-> <<"check_ln1p">>, out |-> check_ln1p(sp, args)]
                    [] expr.name = "log" ->
                        [called |-> <<"check_log_base">>, out |-> check_log_base(sp, args)]
                    [] expr.name = "powf" ->
                        [called |-> <<"check_powf">>, out |-> check_powf(sp, args)]
                    [] OTHER -> [called |-> <<>>, out |-> <<>>]
             ELSE [called |-> <<>>, out |-> <<>>]
    ELSE [called |-> <<"check_expm1">>, out |-> check_expm1(sp, expr)]

-----------------------------------------------------------------------------
(* Trees.                                                                  *)

\* The positions of the nodes of a tree: the root is <<>>, the i-th operand
\* of the node at p is Append(p, i).
RECURSIVE Nodes(_)
Nodes(e) ==
    {<<>>} \cup UNION { { <<i>> \o p : p \in Nodes(e.args[i]) } : i \in DOMAIN e.args }

RECURSIVE NodeAt(_, _)
NodeAt(e, p) == IF p = <<>> THEN e ELSE NodeAt(e.args[Head(p)], Tail(p))

Range(s) == { s[i] : i \in DOMAIN s }

-----------------------------------------------------------------------------
(* The expressions the driver is run on: well-typed expressions over the   *)
(* variables x, y : f64, a, b : f32, n : i32 and u : Custom.               *)

Widths == {"f32", "f64"}
BinOps == {"Add", "Sub", "Mul", "Div"}

Var(w) == IF w = "f64" THEN Path("x") ELSE Path("a")
Var2(w) == IF w = "f64" THEN Path("y") ELSE Path("b")
One(w) == IF w = "f64" THEN Lit("1.0_f64") ELSE Lit("1.0_f32")
Two(w) == IF w = "f64" THEN Lit("2.0_f64") ELSE Lit("2.0_f32")
Three(w) == IF w = "f64" THEN Lit("3.0_f64") ELSE Lit("3.0_f32")
Ten(w) == IF w = "f64" THEN Lit("10.0_f64") ELSE Lit("10.0_f32")
Half(w) == IF w = "f64" THEN Lit("0.5_f64") ELSE Lit("0.5_f32")
Quarter(w) == IF w = "f64" THEN Lit("0.25_f64") ELSE Lit("0.25_f32")
Euler(w) == IF w = "f64" THEN Path("f64_consts::E") ELSE Path("f32_consts::E")

Small(w) == {Var(w), One(w), Two(w), Three(w)}

Atoms(w) ==
    Small(w) \cup {Ten(w), Half(w), Quarter(w), Euler(w)}
        \cup (IF w = "f64"
              THEN {Lit("0.3333333432674408_f64"), Lit("2.7182817459106445_f64")}
              ELSE {})

\* Every binary node over two small operands.
Compound(w) == { Binary(op, l, r) : op \in BinOps, l \in Small(w), r \in Small(w) }

\* Receivers of log and powf.
Receivers(w) ==
    {Var(w), Euler(w), Two(w), Three(w),
     Binary("Add", One(w), Var(w)), Binary("Add", Var(w), Var2(w)),
     Binary("Add", One(w), One(w)), Binary("Sub", Var(w), One(w)),
     Binary("Sub", One(w), Var(w)), Binary("Mul", Var(w), Two(w))}

\* Arguments of log and powf.
Arguments(w) ==
    Atoms(w) \cup
    {Binary("Div", One(w), Two(w)), Binary("Div", One(w), Three(w)),
     Binary("Div", Two(w), Three(w)), Binary("Add", One(w), One(w)),
     Binary("Add", Var(w), One(w))}

\* Receivers of ln.
LnReceivers(w) ==
    {Var(w)} \cup Compound(w) \cup
    {Binary("Mul", Binary("Add", One(w), Var(w)), Var2(w)),
     Binary("Add", Binary("Add", One(w), Var(w)), Var2(w)),
     Binary("Add", Binary("Sub", Three(w), Two(w)), Var(w)),
     Binary("Add", One(w), Binary("Mul", Var(w), Var2(w))),
     Binary("Add", One(w), Binary("Sub", Var(w), Var2(w))),
     Binary("Add", One(w), MethodCall("log", Args2(Var(w), Two(w)))),
     Binary("Add", One(w), MethodCall("ln", Args1(Binary("Add", One(w), Var(w)))))}

\* Left and right operands of the binary roots.
ExpOperands(w) ==
    {Var(w), Binary("Add", Var(w), Var2(w)), Binary("Sub", Var(w), One(w)),
     Binary("Mul", Var(w), Two(w)),
     MethodCall("ln", Args1(Binary("Add", One(w), Var(w))))}

LeftOperands(w) ==
    { MethodCall("exp", Args1(r)) : r \in ExpOperands(w) }
        \cup {Var(w), One(w),
              MethodCall("ln", Args1(Var(w))),
              MethodCall("powf", Args2(Euler(w), Var(w))),
              MethodCall("powf", Args2(Var(w), Half(w)))}
        \cup (IF w = "f64"
              THEN {MethodCall("exp", Args1(Path("u"))),
                    MethodCall("exp", Args2(Path("u"), Path("x"))),
                    MethodCall("ln", Args1(Path("u"))),
                    Path("u")}
              ELSE {})

RightOperands(w) ==
    {One(w), Two(w), Var(w), Binary("Sub", Three(w), Two(w)),
     Binary("Div", One(w), Two(w))}

\* Method calls on receivers that are not floating-point.
ForeignCalls ==
    { MethodCall(m, Args2(r, a)) :
        m \in {"log", "powf"}, r \in {Path("u"), Path("n")},
        a \in {Lit("2.0_f64"), Lit("0.5_f64"), Path("f64_consts::E")} }
    \cup { MethodCall(m, Args1(r)) :
        m \in {"ln", "exp"},
        r \in {Path("u"), Path("n"), Binary("Add", Lit("1.0_f64"), Path("u")),
               Binary("Add", Lit("1.0_f32"), Path("u"))} }

Roots ==
    UNION { { MethodCall(m, Args2(r, a)) :
                m \in {"log", "powf"}, r \in Receivers(w), a \in Arguments(w) }
            \cup { MethodCall("ln", Args1(r)) : r \in LnReceivers(w) }
            \cup { MethodCall(m, Args1(r)) :
                    m \in {"exp", "sqrt", "log2"}, r \in ExpOperands(w) }
            \cup { Binary(op, l, r) :
                    op \in {"Sub", "Add"}, l \in LeftOperands(w), r \in RightOperands(w) }
          : w \in Widths }
    \cup ForeignCalls

-----------------------------------------------------------------------------
(* The state machine.                                                      *)

\* No check_expr call yet in this pass; no suggestion applied yet.
NoCall == [span |-> <<>>, node |-> Path("_"), called |-> <<>>, out |-> <<>>]
NoFix == span_lint_and_sugg("", <<>>, "", "", <<>>, "")
NoTree == Path("_")

Init ==
    /\ tree \in Roots
    /\ pending = Nodes(tree)
    /\ sink = {}
    /\ last = NoCall
    /\ applied = NoFix
    /\ origin = NoTree
    /\ pass = 0

\* The driver visits a node it has not visited yet: one check_expr call,
\* whose diagnostics go to the sink.
Visit(p) ==
    /\ p \in pending
    /\ LET expr == NodeAt(tree, p)
           r == check_expr(p, expr)
       IN  /\ last' = [span |-> p, node |-> expr, called |-> r.called, out |-> r.out]
           /\ sink' = sink \cup Range(r.out)
    /\ pending' = pending \ {p}
    /\ UNCHANGED <<tree, applied, origin, pass>>

\* After a complete pass the fixer applies one suggestion made for the
\* whole expression: the text of the span is replaced by the suggested
\* text and the result is compiled and analysed again.
ApplyFix(d) ==
    /\ pending = {}
    /\ pass < MaxRewrites
    /\ d \in sink
    /\ d.span = <<>>
    /\ tree' = Parse(d.sugg)
    /\ pending' = Nodes(tree')
    /\ sink' = {}
    /\ last' = NoCall
    /\ applied' = d
    /\ origin' = tree
    /\ pass' = pass + 1

Next ==
    \/ \E p \in pending : Visit(p)
    \/ \E d \in sink : ApplyFix(d)

Spec == Init /\ [][Next]_vars

\* Sanity: the source text of every tree reads back as the tree.
RoundTrip == Parse(snippet(tree)) = tree

-----------------------------------------------------------------------------
(* Vocabulary of the properties.                                           *)

Visited == last # NoCall

\* The method a suggestion applies: its text ends ". method ( )".
SuggMethod(d) == d.sugg[Len(d.sugg) - 2]

\* The text a suggestion applies its method to.
SuggOperand(d) == SubSeq(d.sugg, 1, Len(d.sugg) - 4)

\* The source text of the call operand.method().
MethodOn(operand, method) == snippet(MethodCall(method, Args1(operand)))

\* An evaluated operand equals the value v of either width.
Evaluates(e, v) ==
    /\ constant(e) # None
    /\ \/ constant(e)[1] = [tag |-> "F32", bits |-> v]
       \/ constant(e)[1] = [tag |-> "F64", bits |-> v]

\* An evaluated operand equals the quotient 1.0 / d of its own width.
EvaluatesToInverse(e, d) ==
    /\ constant(e) # None
    /\ constant(e)[1].bits = FoldTable[<<"Div", constant(e)[1].tag, lit_1_0, d>>]

\* An evaluated operand equals Euler's number of its own width.
EvaluatesToE(e) ==
    /\ constant(e) # None
    /\ constant(e)[1] \in {[tag |-> "F32", bits |-> f32_consts_E],
                           [tag |-> "F64", bits |-> f64_consts_E]}

\* The latest call was made on a method call named m on a floating-point
\* receiver.
FloatCall(m) ==
    /\ Visited
    /\ last.node.kind = "MethodCall"
    /\ last.node.name = m
    /\ is_floating_point(expr_ty(last.node.args[0]))

Emitted(method) == \E i \in DOMAIN last.out : SuggMethod(last.out[i]) = method

-----------------------------------------------------------------------------
(* C1: on RECEIVER.powf(ARG) with a floating-point receiver the base check *)
(* and the exponent check are independent: an exponent of 1/2 (1/3) gives  *)
(* a sqrt (cbrt) suggestion whatever the receiver evaluates to, a base of  *)
(* e or 2 gives an exp or exp2 suggestion whatever the exponent evaluates  *)
(* to, and when both checks fire exactly two suggestions are emitted.      *)
C1_ChecksIndependent ==
    FloatCall("powf") =>
        LET recv == last.node.args[0]
            arg == last.node.args[1]
            base == EvaluatesToE(recv) \/ Evaluates(recv, lit_2_0)
            exponent == EvaluatesToInverse(arg, lit_2_0) \/ EvaluatesToInverse(arg, lit_3_0)
        IN  /\ EvaluatesToInverse(arg, lit_2_0) => Emitted("sqrt")
            /\ EvaluatesToInverse(arg, lit_3_0) => Emitted("cbrt")
            /\ EvaluatesToE(recv) => Emitted("exp")
            /\ Evaluates(recv, lit_2_0) => Emitted("exp2")
            /\ base /\ exponent => Len(last.out) = 2

-----------------------------------------------------------------------------
\* The receiver the idiom of a node is keyed on: the receiver of a method
\* call; for a binary node, the receiver of the exp call on its left.
KeyedReceivers(e) ==
    IF e.kind = "MethodCall" THEN {e.args[0]}
    ELSE IF e.kind = "Binary" /\ e.args[0].kind = "MethodCall" /\ e.args[0].name = "exp"
    THEN {e.args[0].args[0]}
    ELSE {}

(* C2: a node whose keyed receiver (the receiver of log, powf or ln; for a *)
(* subtraction, the receiver of the exp call on its left) is not of a      *)
(* floating-point type emits no suggestion.                                *)
C2_NonFloatReceiverSilent ==
    Visited =>
        \A r \in KeyedReceivers(last.node) :
            ~is_floating_point(expr_ty(r)) => last.out = <<>>

-----------------------------------------------------------------------------
\* A suggestion made for the whole expression has been applied and the
\* rewritten expression has been analysed again.
Reanalysed == pass > 0 /\ Visited /\ last.span = <<>>

(* C3: idempotence.  After a suggestion made for the whole expression has  *)
(* been applied, the analysis of the rewritten expression emits nothing    *)
(* for it.                                                                 *)
C3_Idempotent == Reanalysed => last.out = <<>>

\* The expression is r.log(b) with a floating-point r that is directly an
\* addition whose left operand evaluates to 1, and b evaluates to e.
LogEOfOnePlus(e) ==
    /\ e.kind = "MethodCall"
    /\ e.name = "log"
    /\ is_floating_point(expr_ty(e.args[0]))
    /\ EvaluatesToE(e.args[1])
    /\ e.args[0].kind = "Binary"
    /\ e.args[0].name = "Add"
    /\ Evaluates(e.args[0].args[0], lit_1_0)

(* C3, amended: the analysis of the rewritten expression emits nothing for *)
(* it, except after (1 + x).log(e) has been rewritten to (1 + x).ln():     *)
(* that expression gets exactly one further suggestion, x.ln_1p().         *)
C3_IdempotentButLnOfOnePlus ==
    Reanalysed =>
        IF LogEOfOnePlus(origin)
        THEN /\ Len(last.out) = 1
             /\ last.out[1].sugg = MethodOn(origin.args[0].args[1], "ln_1p")
        ELSE last.out = <<>>

\* C3, witness: the chain (1 + x).log(e), (1 + x).ln(), x.ln_1p() has been
\* followed to its end, where nothing more is suggested.
C3_Witness ==
    /\ Reanalysed
    /\ pass = 2
    /\ SuggMethod(applied) = "ln_1p"
    /\ origin.name = "ln"
    /\ last.out = <<>>

-----------------------------------------------------------------------------
\* The suggestion to replace the node by r.method().
LogSuggestion(r, method) ==
    [lint |-> "FLOATING_POINT_IMPROVEMENTS",
     span |-> last.span,
     msg |-> "logarithm for bases 2, 10 and e can be computed more accurately",
     help |-> "consider using",
     sugg |-> MethodOn(r, method),
     applicability |-> "MachineApplicable"]

(* C4: on r.log(b) with a floating-point r exactly one suggestion is       *)
(* emitted when b evaluates to 2 (r.log2()), 10 (r.log10()) or e (r.ln()), *)
(* with the logarithm rationale and machine-applicable; for any other      *)
(* constant or a non-constant b nothing is emitted.                        *)
C4_LogBase ==
    FloatCall("log") =>
        LET r == last.node.args[0]
            b == last.node.args[1]
        IN  IF Evaluates(b, lit_2_0) THEN last.out = <<LogSuggestion(r, "log2")>>
            ELSE IF Evaluates(b, lit_10_0) THEN last.out = <<LogSuggestion(r, "log10")>>
            ELSE IF EvaluatesToE(b) THEN last.out = <<LogSuggestion(r, "ln")>>
            ELSE last.out = <<>>

\* C4, witness: a compound receiver with base 10, as in (x + y).log(10.0),
\* which gives (x + y).log10().
C4_Witness ==
    /\ FloatCall("log")
    /\ last.node.args[0].kind = "Binary"
    /\ Evaluates(last.node.args[1], lit_10_0)
    /\ last.out = <<LogSuggestion(last.node.args[0], "log10")>>

-----------------------------------------------------------------------------
PowfSuggestion(msg, sugg) ==
    [lint |-> "FLOATING_POINT_IMPROVEMENTS",
     span |-> last.span,
     msg |-> msg,
     help |-> "consider using",
     sugg |-> sugg,
     applicability |-> "MachineApplicable"]

\* The one suggestion emitted applies the method to the text of the operand,
\* in parentheses or not.
OneSuggestion(msg, operand, method) ==
    /\ Len(last.out) = 1
    /\ SuggMethod(last.out[1]) = method
    /\ SuggOperand(last.out[1]) \in
            {snippet(operand), <<"(">> \o snippet(operand) \o <<")">>}
    /\ last.out[1] = PowfSuggestion(msg, last.out[1].sugg)

(* C5: the power table.  With a non-constant exponent x, a base that       *)
(* evaluates to e gives x.exp() and a base that evaluates to 2 gives       *)
(* x.exp2(); with a non-constant base x, an exponent that evaluates to 1/2 *)
(* gives x.sqrt() and one that evaluates to 1/3 gives x.cbrt(), whatever   *)
(* expression the exponent is written as; any other constant exponent, or  *)
(* a non-constant one, gives nothing.                                      *)
C5_PowfTable ==
    FloatCall("powf") =>
        LET r == last.node.args[0]
            x == last.node.args[1]
            base_msg == "exponent for bases 2 and e can be computed more accurately"
            sqrt_msg ==
                "square-root of a number can be computed more efficiently and accurately"
            cbrt_msg == "cube-root of a number can be computed more accurately"
        IN  /\ constant(x) = None =>
                IF EvaluatesToE(r) THEN OneSuggestion(base_msg, x, "exp")
                ELSE IF Evaluates(r, lit_2_0) THEN OneSuggestion(base_msg, x, "exp2")
                ELSE last.out = <<>>
            /\ constant(r) = None =>
                IF EvaluatesToInverse(x, lit_2_0) THEN OneSuggestion(sqrt_msg, r, "sqrt")
                ELSE IF EvaluatesToInverse(x, lit_3_0) THEN OneSuggestion(cbrt_msg, r, "cbrt")
                ELSE last.out = <<>>

\* C5, witness: x.powf(1.0 / 3.0), where the exponent is a division and
\* x.cbrt() is suggested.
C5_Witness ==
    /\ FloatCall("powf")
    /\ last.node.args[0] = Path("x")
    /\ last.node.args[1].kind = "Binary"
    /\ Len(last.out) = 1
    /\ last.out[1].sugg = <<"x", ".", "cbrt", "(", ")">>

-----------------------------------------------------------------------------
OnePlus(e) ==
    /\ e.kind = "Binary"
    /\ e.name = "Add"
    /\ Evaluates(e.args[0], lit_1_0)

Ln1pSuggestion(rhs) ==
    [lint |-> "FLOATING_POINT_IMPROVEMENTS",
     span |-> last.span,
     msg |-> "ln(1 + x) can be computed more accurately",
     help |-> "consider using",
     sugg |-> MethodOn(rhs, "ln_1p"),
     applicability |-> "MachineApplicable"]

Ln1pOutcome ==
    IF OnePlus(last.node.args[0])
    THEN last.out = <<Ln1pSuggestion(last.node.args[0].args[1])>>
    ELSE last.out = <<>>

(* C6: the node RECEIVER.ln() gets a suggestion exactly when RECEIVER is   *)
(* directly an addition whose left operand evaluates to 1, and the         *)
(* suggestion is RHS.ln_1p().                                              *)
C6_Ln1p ==
    (Visited /\ last.node.kind = "MethodCall" /\ last.node.name = "ln") => Ln1pOutcome

(* C6, amended: the node RECEIVER.ln() with a RECEIVER of a floating-point *)
(* type gets a suggestion exactly when RECEIVER is directly an addition    *)
(* whose left operand evaluates to 1, and the suggestion is RHS.ln_1p().   *)
C6_Ln1pOfFloat == FloatCall("ln") => Ln1pOutcome

\* C6, witness: (1.0 + x * y).ln(), where the right operand is compound and
\* (x * y).ln_1p() is suggested.
C6_Witness ==
    /\ FloatCall("ln")
    /\ OnePlus(last.node.args[0])
    /\ last.node.args[0].args[1].kind = "Binary"
    /\ last.out = <<Ln1pSuggestion(last.node.args[0].args[1])>>

-----------------------------------------------------------------------------
(* C7: a binary node LHS - RHS gets a suggestion only if the operator is   *)
(* a subtraction, LHS has a floating-point type, RHS evaluates to 1 and    *)
(* LHS is a call of a method named exp with its receiver as only operand.  *)
C7_Expm1Conditions ==
    (Visited /\ last.node.kind = "Binary" /\ last.out # <<>>) =>
        LET lhs == last.node.args[0]
            rhs == last.node.args[1]
        IN  /\ last.node.name = "Sub"
            /\ is_floating_point(expr_ty(lhs))
            /\ Evaluates(rhs, lit_1_0)
            /\ lhs.kind = "MethodCall"
            /\ lhs.name = "exp"
            /\ NumArgs(lhs) = 1

-----------------------------------------------------------------------------
\* The operand of the node that the suggestion of a method carries.
Carried(node, method) ==
    CASE method \in {"log2", "log10", "ln", "sqrt", "cbrt"} -> node.args[0]
      [] method \in {"exp", "exp2"} -> node.args[1]
      [] method = "ln_1p" -> node.args[0].args[1]
      [] method = "exp_m1" -> node.args[0].args[0]

(* C10: every suggestion applies its method to the whole operand carried   *)
(* into it: read back as an expression, the replacement is a call of the   *)
(* method on that operand.                                                 *)
C10_WholeOperand ==
    Visited =>
        \A i \in DOMAIN last.out :
            LET method == SuggMethod(last.out[i])
            IN  Parse(last.out[i].sugg)
                    = MethodCall(method, Args1(Carried(last.node, method)))

-----------------------------------------------------------------------------
\* The counterpart of the other width of every literal and path.
Twin ==
       ("x" :> "a") @@ ("a" :> "x") @@ ("y" :> "b") @@ ("b" :> "y")
    @@ ("1.0_f64" :> "1.0_f32") @@ ("1.0_f32" :> "1.0_f64")
    @@ ("2.0_f64" :> "2.0_f32") @@ ("2.0_f32" :> "2.0_f64")
    @@ ("3.0_f64" :> "3.0_f32") @@ ("3.0_f32" :> "3.0_f64")
    @@ ("10.0_f64" :> "10.0_f32") @@ ("10.0_f32" :> "10.0_f64")
    @@ ("0.5_f64" :> "0.5_f32") @@ ("0.5_f32" :> "0.5_f64")
    @@ ("0.25_f64" :> "0.25_f32") @@ ("0.25_f32" :> "0.25_f64")
    @@ ("f64_consts::E" :> "f32_consts::E") @@ ("f32_consts::E" :> "f64_consts::E")

\* Every literal and path of the expression has a counterpart of the other
\* width.
RECURSIVE HasTwin(_)
HasTwin(e) ==
    /\ e.kind \in {"Lit", "Path"} => e.name \in DOMAIN Twin
    /\ \A i \in DOMAIN e.args : HasTwin(e.args[i])

\* The expression with every operand replaced by its counterpart.
RECURSIVE OtherWidth(_)
OtherWidth(e) ==
    [kind |-> e.kind,
     name |-> IF e.kind \in {"Lit", "Path"} THEN Twin[e.name] ELSE e.name,
     args |-> [i \in DOMAIN e.args |-> OtherWidth(e.args[i])]]

OtherWidthText(ts) ==
    [i \in DOMAIN ts |-> IF ts[i] \in DOMAIN Twin THEN Twin[ts[i]] ELSE ts[i]]

OtherWidthSuggestion(d) == [d EXCEPT !.sugg = OtherWidthText(d.sugg)]

\* A double-width constant whose bits are those of a single-width target.
SingleWidthSpelling(e) ==
    /\ constant(e) # None
    /\ constant(e)[1].tag = "F64"
    /\ constant(e)[1].bits \in {F32_third.bits, f32_consts_E}

(* C8: width independence.  An expression over single-width operands and   *)
(* the same expression over double-width operands get the same             *)
(* suggestions; and a double-width constant that spells the single-width   *)
(* value of 1/3 or of e matches no target.                                 *)
C8_WidthIndependent ==
    /\ (Visited /\ HasTwin(last.node)) =>
            LET twin == check_expr(last.span, OtherWidth(last.node))
            IN  /\ twin.called = last.called
                /\ twin.out = [i \in DOMAIN last.out |-> OtherWidthSuggestion(last.out[i])]
    /\ (FloatCall("log") /\ SingleWidthSpelling(last.node.args[1])) => last.out = <<>>
    /\ (FloatCall("powf") /\ SingleWidthSpelling(last.node.args[1])) =>
            ~Emitted("sqrt") /\ ~Emitted("cbrt")

\* C8, witness: a.powf(1.0_f32 / 3.0_f32) gets a cbrt suggestion, as its
\* double-width counterpart x.powf(1.0 / 3.0) does.
C8_Witness ==
    /\ FloatCall("powf")
    /\ expr_ty(last.node.args[0]) = "f32"
    /\ last.node.args[1] = Binary("Div", Lit("1.0_f32"), Lit("3.0_f32"))
    /\ Emitted("cbrt")
    /\ check_expr(last.span, OtherWidth(last.node)).out # <<>>

-----------------------------------------------------------------------------
\* The matchers a node of each shape is to be handed to.
Route(e) ==
    IF e.kind # "MethodCall" THEN <<"check_expm1">>
    ELSE IF ~is_floating_point(expr_ty(e.args[0])) THEN <<>>
    ELSE IF e.name = "log" THEN <<"check_log_base">>
    ELSE IF e.name = "powf" THEN <<"check_powf">>
    ELSE IF e.name = "ln" THEN <<"check_ln1p">>
    ELSE <<>>

Rationales(matcher) ==
    CASE matcher = "check_log_base" ->
            {"logarithm for bases 2, 10 and e can be computed more accurately"}
      [] matcher = "check_powf" ->
            {"exponent for bases 2 and e can be computed more accurately",
             "square-root of a number can be computed more efficiently and accurately",
             "cube-root of a number can be computed more accurately"}
      [] matcher = "check_ln1p" -> {"ln(1 + x) can be computed more accurately"}
      [] matcher = "check_expm1" -> {"(e.pow(x) - 1) can be computed more accurately"}

(* C9: dispatch.  A method call on a floating-point receiver is handed to  *)
(* the one matcher of its name (ln, log, powf) and to none otherwise; a    *)
(* method call is never handed to check_expm1; any other node is handed    *)
(* to check_expm1 alone.  What a node emits is for its own span and from   *)
(* the matcher it was handed to.  The diagnostics of a pass are those of   *)
(* the nodes visited, in whatever order they were visited.                 *)
C9_Dispatch ==
    /\ Visited =>
        /\ last.called = Route(last.node)
        /\ last.called = <<>> => last.out = <<>>
        /\ \A i \in DOMAIN last.out :
            /\ last.out[i].span = last.span
            /\ last.out[i].msg \in Rationales(last.called[1])
    /\ sink = UNION { Range(check_expr(p, NodeAt(tree, p)).out) :
                        p \in Nodes(tree) \ pending }

\* C9, witness: a complete pass over a tree in which two different nodes
\* got a suggestion.
C9_Witness ==
    /\ pending = {}
    /\ \E d1 \in sink : \E d2 \in sink : d1.span # d2.span
=============================================================================
